---- MODULE Spec2Model ----
(***************************************************************************)
(* A model of src/util/index.js: the Util singleton (configuration,        *)
(* message taxonomy, browser probe), its synchronous helpers (validateId,  *)
(* validateKey, randomToken, randomId, joinArrayBuffers,                   *)
(* binaryStringToArrayBuffer, isSecure) and its asynchronous Blob readers  *)
(* (blobToArrayBuffer, blobToBinaryString, blobToString).                  *)
(*                                                                         *)
(* A JavaScript string is a sequence of one-character strings; a byte      *)
(* buffer is a sequence of numbers in 0..255.                              *)
(***************************************************************************)
EXTENDS Integers, Sequences, FiniteSets, TLC

VARIABLES
  window,      \* the RTCPeerConnection constructors present on `window` now
  window0,     \* the constructors that were present when Util was constructed
  util,        \* the fields of the Util instance
  ret,         \* the synchronous call in progress: operation, argument, result
  readers,     \* the FileReaders created so far, one per blobTo* call
  delivered    \* the callback invocations made so far, in order

vars == <<window, window0, util, ret, readers, delivered>>

----------------------------------------------------------------------------
(* Characters *)

Digit == {"0", "1", "2", "3", "4", "5", "6", "7", "8", "9"}

Lower ==
  {"a", "b", "c", "d", "e", "f", "g", "h", "i", "j", "k", "l", "m",
   "n", "o", "p", "q", "r", "s", "t", "u", "v", "w", "x", "y", "z"}

Upper ==
  {"A", "B", "C", "D", "E", "F", "G", "H", "I", "J", "K", "L", "M",
   "N", "O", "P", "Q", "R", "S", "T", "U", "V", "W", "X", "Y", "Z"}

----------------------------------------------------------------------------
(* JavaScript values *)

Undefined == [type |-> "undefined", chars |-> <<>>]

JSString(chars) == [type |-> "string", chars |-> chars]

JSBoolean(b) == [type |-> "boolean", value |-> b]

JSNull == [type |-> "null", value |-> <<>>]

\* The array RegExp.prototype.exec returns on a match: element 0 is the
\* matched text.
JSArray(elems) == [type |-> "object", value |-> elems]

\* `!v` for the values a caller passes as an id or a key.
Not(v) == v.type = "undefined" \/ (v.type = "string" /\ v.chars = <<>>)

\* ToBoolean of a value the validators return.
Truthy(r) ==
  CASE r.type = "boolean" -> r.value
    [] r.type = "null" -> FALSE
    [] r.type = "object" -> TRUE

----------------------------------------------------------------------------
(* Regular expressions, matched as the engine matches them: each operator  *)
(* returns the positions at which a sub-pattern started at position i can  *)
(* end (position = index of the next unread character).                    *)

\* cls+ from i: every j > i with s[i..j-1] all in cls.
RECURSIVE PlusEnds(_, _, _)
PlusEnds(s, i, cls) ==
  IF i <= Len(s) /\ s[i] \in cls
    THEN {i + 1} \cup PlusEnds(s, i + 1, cls)
    ELSE {}

\* cls{n} from i: the single end position, or none.
RECURSIVE RepeatEnds(_, _, _, _)
RepeatEnds(s, i, cls, n) ==
  IF n = 0 THEN {i}
  ELSE IF i <= Len(s) /\ s[i] \in cls
    THEN RepeatEnds(s, i + 1, cls, n - 1)
    ELSE {}

\* One literal or class character from i.
CharEnds(s, i, cls) == IF i <= Len(s) /\ s[i] \in cls THEN {i + 1} ELSE {}

\* IdFirst with the separator class folded into it.
IdFirst_allowSpace == Upper \cup Lower \cup Digit \cup {"_", "-", " "}

\* [A-Za-z0-9_-]
IdFirst == Upper \cup Lower \cup Digit \cup {"_", "-"}

\* [ _-]
IdSep == {" ", "_", "-"}

\* [A-Za-z0-9]
IdRest == Upper \cup Lower \cup Digit

\* (?:[ _-][A-Za-z0-9]+) from i
IdGroupEnds(s, i) ==
  UNION {PlusEnds(s, j, IdRest) : j \in CharEnds(s, i, IdSep)}

\* (?:[ _-][A-Za-z0-9]+)* from any position of `from`
RECURSIVE IdGroupStarEnds(_, _)
IdGroupStarEnds(s, from) ==
  LET more == UNION {IdGroupEnds(s, i) : i \in from}
  IN  IF more \subseteq from THEN from
      ELSE IdGroupStarEnds(s, from \cup more)

\* /^[A-Za-z0-9_-]+(?:[ _-][A-Za-z0-9]+)*$/.exec(s)
IdPatternExec(s) ==
  IF Len(s) + 1 \in IdGroupStarEnds(s, PlusEnds(s, 1, IdFirst))
    THEN JSArray(<<s>>)
    ELSE JSNull

validateId(id) == IF Not(id) THEN JSBoolean(TRUE) ELSE IdPatternExec(id.chars)

\* [a-z0-9]
KeyChar == Lower \cup Digit

\* (-[a-z0-9]{4}) from every position of `from`
KeyGroupEnds(s, from) ==
  UNION {RepeatEnds(s, j, KeyChar, 4) :
           j \in UNION {CharEnds(s, i, {"-"}) : i \in from}}

\* /^[a-z0-9]{8}(-[a-z0-9]{4}){3}-[a-z0-9]{12}$/.exec(s): on a match, the
\* matched text and the text the capturing group matched last (its third
\* repetition).
KeyPatternExec(s) ==
  LET g0 == RepeatEnds(s, 1, KeyChar, 8)
      g1 == KeyGroupEnds(s, g0)
      g2 == KeyGroupEnds(s, g1)
      g3 == KeyGroupEnds(s, g2)
      dash == UNION {CharEnds(s, i, {"-"}) : i \in g3}
      last == UNION {RepeatEnds(s, i, KeyChar, 12) : i \in dash}
  IN  IF Len(s) + 1 \in last
        THEN LET from == CHOOSE i \in g2 : TRUE
                 to == CHOOSE i \in g3 : TRUE
             IN  JSArray(<<s, SubSeq(s, from, to - 1)>>)
        ELSE JSNull

validateKey(key) ==
  IF Not(key) THEN JSBoolean(TRUE) ELSE KeyPatternExec(key.chars)

----------------------------------------------------------------------------
(* Random identifiers.  A value of Math.random() is modelled by the digits *)
(* of its base-36 fraction (each in 0..35, the last one non-zero; no       *)
(* digits at all for the value 0).                                         *)

Base36 ==
  <<"0", "1", "2", "3", "4", "5", "6", "7", "8", "9",
    "a", "b", "c", "d", "e", "f", "g", "h", "i", "j", "k", "l", "m",
    "n", "o", "p", "q", "r", "s", "t", "u", "v", "w", "x", "y", "z">>

\* Number.prototype.toString(36) of a number in [0, 1)
toString36(frac) ==
  IF frac = <<>> THEN <<"0">>
  ELSE <<"0", ".">> \o [i \in 1..Len(frac) |-> Base36[frac[i] + 1]]

Min(a, b) == IF a <= b THEN a ELSE b

\* String.prototype.substr(start, length), start >= 0
substr(s, start, length) ==
  IF start >= Len(s) THEN <<>>
  ELSE SubSeq(s, start + 1, Min(start + length, Len(s)))

\* String.prototype.substr(start)
substrFrom(s, start) == substr(s, start, Len(s))

randomToken(frac) == substrFrom(toString36(frac), 2)

keyLength == 16

\* A padding one character long.
Padding_short == <<"0">>

\* '0000000000000000000'
Padding == [i \in 1..19 |-> "0"]

randomId(frac) ==
  LET randString == toString36(frac) \o Padding
  IN  substr(randString, 2, keyLength)

----------------------------------------------------------------------------
(* Buffers *)

byteLength(buffer) == Len(buffer)

\* buffers.reduce((sum, buffer) => sum + buffer.byteLength, 0)
RECURSIVE reduceSize(_, _, _)
reduceSize(buffers, k, sum) ==
  IF k > Len(buffers) THEN sum
  ELSE reduceSize(buffers, k + 1, sum + byteLength(buffers[k]))

\* new Uint8Array(size): zero-filled
Uint8Array(size) == [i \in 1..size |-> 0]

\* The source always written at the start of the target.
TypedArraySet_noOffset(target, source, offset) ==
  [i \in 1..Len(target) |->
     IF i <= Len(source) THEN source[i] ELSE target[i]]

\* target.set(source, offset)
TypedArraySet(target, source, offset) ==
  [i \in 1..Len(target) |->
     IF offset < i /\ i <= offset + Len(source)
       THEN source[i - offset]
       ELSE target[i]]

\* for (let buffer of buffers) { tmpArray.set(...); currPos += ... }
RECURSIVE joinLoop(_, _, _, _)
joinLoop(buffers, k, tmpArray, currPos) ==
  IF k > Len(buffers) THEN tmpArray
  ELSE joinLoop(buffers, k + 1,
                TypedArraySet(tmpArray, buffers[k], currPos),
                currPos + byteLength(buffers[k]))

joinArrayBuffers(buffers) ==
  LET size == reduceSize(buffers, 1, 0)
  IN  joinLoop(buffers, 1, Uint8Array(size), 0)

\* binary is the sequence of the string's UTF-16 code units
binaryStringToArrayBuffer(binary) ==
  [i \in 1..Len(binary) |-> binary[i] % 256]

isSecure(protocol) == protocol = <<"h", "t", "t", "p", "s", ":">>

----------------------------------------------------------------------------
(* The message taxonomy *)

\* new Enum([...]): the member at index i of the array gets the value 2^i.
Enum(names) ==
  [i \in 1..Len(names) |-> [key |-> names[i], value |-> 2 ^ (i - 1)]]

\* enum.get(name): the member of that name, or undefined.
EnumGet(enum, name) ==
  IF \E i \in 1..Len(enum) : enum[i].key = name
    THEN LET i == CHOOSE i \in 1..Len(enum) : enum[i].key = name
         IN  [type |-> "EnumItem", key |-> enum[i].key, value |-> enum[i].value]
    ELSE [type |-> "undefined", key |-> "", value |-> 0]

\* The client list with SFU_ANSWER mistyped as SEND_ANSWER.
clientMessages_dup ==
  Enum(<<"SEND_OFFER", "SEND_ANSWER", "SEND_CANDIDATE", "SEND_LEAVE",
         "ROOM_JOIN", "ROOM_LEAVE", "ROOM_GET_LOGS", "ROOM_GET_USERS",
         "ROOM_SEND_DATA", "SFU_GET_OFFER", "SEND_ANSWER", "SFU_CANDIDATE",
         "PING", "UPDATE_CREDENTIAL">>)

clientMessages ==
  Enum(<<"SEND_OFFER", "SEND_ANSWER", "SEND_CANDIDATE", "SEND_LEAVE",
         "ROOM_JOIN", "ROOM_LEAVE", "ROOM_GET_LOGS", "ROOM_GET_USERS",
         "ROOM_SEND_DATA", "SFU_GET_OFFER", "SFU_ANSWER", "SFU_CANDIDATE",
         "PING", "UPDATE_CREDENTIAL">>)

serverMessages ==
  Enum(<<"OPEN", "ERROR", "OFFER", "ANSWER", "CANDIDATE", "LEAVE",
         "AUTH_EXPIRES_IN", "ROOM_LOGS", "ROOM_USERS", "ROOM_DATA",
         "ROOM_USER_JOIN", "ROOM_USER_LEAVE", "SFU_OFFER">>)

----------------------------------------------------------------------------
(* Construction *)

Constructors ==
  {"mozRTCPeerConnection", "webkitRTCPeerConnection", "RTCPeerConnection"}

\* The probe with the webkit test placed before the mozilla test.
browser_webkitFirst(w) ==
  IF "webkitRTCPeerConnection" \in w THEN "Chrome"
  ELSE IF "mozRTCPeerConnection" \in w THEN "Firefox"
  ELSE IF "RTCPeerConnection" \in w THEN "Supported"
  ELSE "Unsupported"

\* The function expression assigned to this.browser, applied to `window`.
browser(w) ==
  IF "mozRTCPeerConnection" \in w THEN "Firefox"
  ELSE IF "webkitRTCPeerConnection" \in w THEN "Chrome"
  ELSE IF "RTCPeerConnection" \in w THEN "Supported"
  ELSE "Unsupported"

\* The fields `new Util()` sets, in a runtime whose window holds w.
constructor(w) ==
  [DISPATCHER_HOST |-> "dispatcher.skyway.io",
   DISPATCHER_PORT |-> 443,
   DISPATCHER_SECURE |-> TRUE,
   DISPATCHER_TIMEOUT |-> 3000,
   TURN_HOST |-> "turn.skyway.io",
   TURN_PORT |-> 443,
   debug |-> FALSE,
   pack |-> "BinaryPack.pack",
   unpack |-> "BinaryPack.unpack",
   setZeroTimeout |-> "undefined",
   MESSAGE_TYPES |-> [CLIENT |-> clientMessages, SERVER |-> serverMessages],
   chunkedBrowsers |-> [Chrome |-> 1],
   maxChunkSize |-> 16300,
   reconnectionAttempts |-> 2,
   numberServersToTry |-> 3,
   sendInterval |-> 1,
   pingInterval |-> 25000,
   defaultConfig |->
     [iceServers |-> <<[urls |-> "stun:stun.skyway.io:3478",
                        url |-> "stun:stun.skyway.io:3478"]>>,
      iceTransportPolicy |-> "all"],
   browser |-> browser(w)]

NoCall == [op |-> "none", arg |-> <<>>, result |-> <<>>]

\* module.exports = new Util(), in any runtime
Init ==
  /\ window \in SUBSET Constructors
  /\ window0 = window
  /\ util = constructor(window)
  /\ ret = NoCall
  /\ readers = <<>>
  /\ delivered = <<>>

----------------------------------------------------------------------------
(* Blob readers.  A Blob is the sequence of its bytes; its type is empty.   *)

NullResult == [kind |-> "null", data |-> <<>>]

\* The UTF-8 decoder of the Encoding Standard from byte i on: the code
\* points it emits.  cp, seen and needed are the code point under way, its
\* continuation bytes read and wanted; lower..upper is the range the next
\* continuation byte must lie in.  An ill-formed sequence emits one U+FFFD
\* and the offending byte is read again as a first byte.
RECURSIVE Utf8Decoder(_, _, _, _, _, _, _)
Utf8Decoder(bytes, i, cp, seen, needed, lower, upper) ==
  IF i > Len(bytes) THEN (IF needed # 0 THEN <<65533>> ELSE <<>>)
  ELSE
    LET b == bytes[i]
    IN  IF needed = 0 THEN
          IF b <= 127
            THEN <<b>> \o Utf8Decoder(bytes, i + 1, 0, 0, 0, 128, 191)
          ELSE IF 194 <= b /\ b <= 223
            THEN Utf8Decoder(bytes, i + 1, b - 192, 0, 1, 128, 191)
          ELSE IF 224 <= b /\ b <= 239
            THEN Utf8Decoder(bytes, i + 1, b - 224, 0, 2,
                             IF b = 224 THEN 160 ELSE 128,
                             IF b = 237 THEN 159 ELSE 191)
          ELSE IF 240 <= b /\ b <= 244
            THEN Utf8Decoder(bytes, i + 1, b - 240, 0, 3,
                             IF b = 240 THEN 144 ELSE 128,
                             IF b = 244 THEN 143 ELSE 191)
          ELSE <<65533>> \o Utf8Decoder(bytes, i + 1, 0, 0, 0, 128, 191)
        ELSE IF b < lower \/ b > upper
          THEN <<65533>> \o Utf8Decoder(bytes, i, 0, 0, 0, 128, 191)
        ELSE IF seen + 1 = needed
          THEN <<cp * 64 + (b - 128)>>
                 \o Utf8Decoder(bytes, i + 1, 0, 0, 0, 128, 191)
        ELSE Utf8Decoder(bytes, i + 1, cp * 64 + (b - 128), seen + 1, needed,
                         128, 191)

\* The code units the bytes from i on pair into, most significant byte
\* first (be) or last; a byte left over is the unit -1.
RECURSIVE Utf16Units(_, _, _)
Utf16Units(bytes, i, be) ==
  IF i > Len(bytes) THEN <<>>
  ELSE IF i = Len(bytes) THEN <<-1>>
  ELSE <<IF be THEN bytes[i] * 256 + bytes[i + 1]
               ELSE bytes[i + 1] * 256 + bytes[i]>>
         \o Utf16Units(bytes, i + 2, be)

\* The UTF-16 decoder of the Encoding Standard over code units: a surrogate
\* pair is one code point, an unpaired surrogate or a byte (or a surrogate
\* and a byte) left at the end is one U+FFFD.
RECURSIVE Utf16Decoder(_, _)
Utf16Decoder(units, i) ==
  IF i > Len(units) THEN <<>>
  ELSE
    LET u == units[i]
    IN  IF u = -1 THEN <<65533>>
        ELSE IF 55296 <= u /\ u <= 56319 THEN
          IF i = Len(units) THEN <<65533>>
          ELSE IF units[i + 1] = -1 THEN <<65533>>
          ELSE IF 56320 <= units[i + 1] /\ units[i + 1] <= 57343
            THEN <<65536 + (u - 55296) * 1024 + (units[i + 1] - 56320)>>
                   \o Utf16Decoder(units, i + 2)
          ELSE <<65533>> \o Utf16Decoder(units, i + 1)
        ELSE IF 56320 <= u /\ u <= 57343
          THEN <<65533>> \o Utf16Decoder(units, i + 1)
        ELSE <<u>> \o Utf16Decoder(units, i + 1)

\* The UTF-16 code units of the string holding the code points.
RECURSIVE ToCodeUnits(_)
ToCodeUnits(points) ==
  IF points = <<>> THEN <<>>
  ELSE
    LET c == Head(points)
    IN  (IF c >= 65536
           THEN <<55296 + ((c - 65536) \div 1024), 56320 + ((c - 65536) % 1024)>>
           ELSE <<c>>)
          \o ToCodeUnits(Tail(points))

StartsWith(bytes, prefix) ==
  Len(bytes) >= Len(prefix) /\ SubSeq(bytes, 1, Len(prefix)) = prefix

\* "decode" of the Encoding Standard with the fallback UTF-8, which is what
\* readAsText(blob) does for a blob whose type names no charset: a byte
\* order mark picks the decoder and is dropped.
Decode(bytes) ==
  IF StartsWith(bytes, <<239, 187, 191>>)
    THEN Utf8Decoder(bytes, 4, 0, 0, 0, 128, 191)
  ELSE IF StartsWith(bytes, <<254, 255>>)
    THEN Utf16Decoder(Utf16Units(bytes, 3, TRUE), 1)
  ELSE IF StartsWith(bytes, <<255, 254>>)
    THEN Utf16Decoder(Utf16Units(bytes, 3, FALSE), 1)
  ELSE Utf8Decoder(bytes, 1, 0, 0, 0, 128, 191)

\* What a FileReader holds in `result` once its read has loaded.
FileRead(method, blob) ==
  CASE method = "readAsArrayBuffer" -> [kind |-> "ArrayBuffer", data |-> blob]
    [] method = "readAsBinaryString" -> [kind |-> "string", data |-> blob]
    [] method = "readAsText" ->
         [kind |-> "string", data |-> ToCodeUnits(Decode(blob))]

\* new FileReader(); fr.onload = event => { cb(event.target.result); };
\* fr.<method>(blob)
NewReader(method, blob, cb) ==
  [method |-> method, blob |-> blob, onload |-> cb,
   readyState |-> "LOADING", error |-> FALSE, result |-> NullResult]

\* The handler reading the reader made by the latest call, as it would
\* were `fr` shared by all calls.
onload_shared(rs, target) ==
  [target |-> target, cb |-> rs[target].onload, value |-> rs[Len(rs)].result]

\* event => { cb(event.target.result); } run for a load event of rs[target]:
\* the invocation it makes.
onload(rs, target) ==
  [target |-> target, cb |-> rs[target].onload, value |-> rs[target].result]

----------------------------------------------------------------------------
(* Bounds and inputs *)

MaxIdLen == 4
MaxKeyShort == 2
MaxFrac == 18
MaxBufLen == 2
MaxBuffers == 3
MaxBinLen == 2
MaxReaders == 2

SeqsUpTo(S, n) == UNION {[1..k -> S] : k \in 0..n}

IdAlphabet == {"a", "7", "_", "-", " ", "!"}

IdSamples ==
  {<<"a", " ", "b", "-", "c", "_", "d">>,
   <<"a", " ", " ", "b">>,
   <<"a", "!", "b">>,
   <<"P", "e", "e", "r", "_", "0", "1", "-", "x", " ", "Y">>,
   <<"-", "-", "a", "_", "_", "b", " ", "c", "-", "d">>,
   <<"a", " ", "b", "-", "-", "c">>,
   <<"a", " ", "b", "_">>,
   <<"Z", "\t", "z">>}

Ids ==
  {Undefined}
    \cup {JSString(s) : s \in SeqsUpTo(IdAlphabet, MaxIdLen) \cup IdSamples}

SampleIds ==
  {Undefined, JSString(<<>>), JSString(<<"a", " ", "b">>),
   JSString(<<"a", "!", "b">>)}

\* A 36-character text with hyphens where a UUID has them, filled with the
\* characters even and odd alternately.
KeyTemplate(even, odd) ==
  [p \in 1..36 |->
     IF p \in {9, 14, 19, 24} THEN "-"
     ELSE IF p % 2 = 0 THEN even ELSE odd]

Replace(s, i, c) == [s EXCEPT ![i] = c]
Delete(s, i) == SubSeq(s, 1, i - 1) \o SubSeq(s, i + 1, Len(s))
Insert(s, i, c) == SubSeq(s, 1, i - 1) \o <<c>> \o SubSeq(s, i, Len(s))

KeyFill == {"0", "f", "z"}
KeyEdit == {"9", "a", "g", "A", "-", "!", " "}

KeyTemplates == {KeyTemplate(e, o) : e \in KeyFill, o \in KeyFill}

KeySamples ==
  {<<"1", "2", "3", "4", "5", "6", "7", "8", "-", "1", "2", "3", "4", "-",
     "1", "2", "3", "4", "-", "1", "2", "3", "4", "-",
     "1", "2", "3", "4", "5", "6", "7", "8", "9", "0", "1", "2">>,
   <<"n", "o", "t", "-", "a", "-", "u", "u", "i", "d">>}

KeyTexts ==
  SeqsUpTo(KeyFill \cup {"-"}, MaxKeyShort) \cup KeyTemplates \cup KeySamples
    \cup {Replace(t, i, c) : t \in KeyTemplates, i \in 1..36, c \in KeyEdit}
    \cup {Delete(t, i) : t \in KeyTemplates, i \in 1..36}
    \cup {Insert(t, i, c) : t \in KeyTemplates, i \in 1..37, c \in KeyEdit}

Keys == {Undefined} \cup {JSString(s) : s \in KeyTexts}

SampleKeys ==
  {Undefined, JSString(KeyTemplate("0", "f")), JSString(<<"z">>)}

DigitSamples == {0, 9, 10, 35}

\* Fractions of up to MaxFrac base-36 digits: first digit a, last digit c
\* (non-zero), the digits between them b.
Fracs ==
  {<<>>} \cup
  {[i \in 1..n |-> IF i = n THEN c ELSE IF i = 1 THEN a ELSE b] :
     n \in 1..MaxFrac, a \in DigitSamples, b \in DigitSamples,
     c \in DigitSamples \ {0}}

SampleFracs == {<<>>, <<18>>, [i \in 1..17 |-> 35]}

ByteSamples == {0, 255}

BufferLists == SeqsUpTo(SeqsUpTo(ByteSamples, MaxBufLen), MaxBuffers)

SampleBufferLists == {<<>>, <<<<1, 2>>, <<>>, <<3>>>>}

\* Binary strings, as UTF-16 code units
BinaryStrings == SeqsUpTo({65, 321}, MaxBinLen)

Protocols ==
  {<<"h", "t", "t", "p", "s", ":">>, <<"h", "t", "t", "p", ":">>,
   <<"f", "i", "l", "e", ":">>}

Families == {"CLIENT", "SERVER"}

\* "Hi", and a byte order mark, U+00E9 and a truncated three-byte sequence
Blobs == {<<72, 105>>, <<239, 187, 191, 195, 169, 226, 130>>}

----------------------------------------------------------------------------
(* Operations.  A synchronous call runs to completion: it is one step that *)
(* leaves its result in `ret`, and Return hands the result to the caller.  *)

Result(op, arg, result) == [op |-> op, arg |-> arg, result |-> result]

ValidateIdCall(S) ==
  /\ ret.op = "none"
  /\ \E id \in S : ret' = Result("validateId", id, validateId(id))
  /\ UNCHANGED <<window, window0, util, readers, delivered>>

ValidateKeyCall(S) ==
  /\ ret.op = "none"
  /\ \E key \in S : ret' = Result("validateKey", key, validateKey(key))
  /\ UNCHANGED <<window, window0, util, readers, delivered>>

RandomTokenCall(S) ==
  /\ ret.op = "none"
  /\ \E x \in S : ret' = Result("randomToken", x, randomToken(x))
  /\ UNCHANGED <<window, window0, util, readers, delivered>>

RandomIdCall(S) ==
  /\ ret.op = "none"
  /\ \E x \in S : ret' = Result("randomId", x, randomId(x))
  /\ UNCHANGED <<window, window0, util, readers, delivered>>

JoinArrayBuffersCall(S) ==
  /\ ret.op = "none"
  /\ \E buffers \in S :
       ret' = Result("joinArrayBuffers", buffers, joinArrayBuffers(buffers))
  /\ UNCHANGED <<window, window0, util, readers, delivered>>

BinaryStringToArrayBufferCall ==
  /\ ret.op = "none"
  /\ \E binary \in BinaryStrings :
       ret' = Result("binaryStringToArrayBuffer", binary,
                     binaryStringToArrayBuffer(binary))
  /\ UNCHANGED <<window, window0, util, readers, delivered>>

\* Assignment in place of comparison: the flag is stored on the instance.
IsSecureCall_assigns ==
  /\ ret.op = "none"
  /\ \E p \in Protocols :
       /\ ret' = Result("isSecure", p, isSecure(p))
       /\ util' = [util EXCEPT !.DISPATCHER_SECURE = isSecure(p)]
  /\ UNCHANGED <<window, window0, readers, delivered>>

IsSecureCall ==
  /\ ret.op = "none"
  /\ \E p \in Protocols : ret' = Result("isSecure", p, isSecure(p))
  /\ UNCHANGED <<window, window0, util, readers, delivered>>

\* The names a caller looks up in a family: its own members' names, a name
\* of the other family and a name of neither.
LookupNames(family) ==
  LET enum == util.MESSAGE_TYPES[family]
      other == util.MESSAGE_TYPES[CHOOSE f \in Families : f # family]
  IN  {enum[i].key : i \in 1..Len(enum)} \cup {other[1].key, "UNKNOWN"}

\* util.MESSAGE_TYPES.<family>.get(name)
GetCall ==
  /\ ret.op = "none"
  /\ \E family \in Families :
       \E name \in LookupNames(family) :
         ret' = Result("get", [family |-> family, name |-> name],
                       EnumGet(util.MESSAGE_TYPES[family], name))
  /\ UNCHANGED <<window, window0, util, readers, delivered>>

Return ==
  /\ ret.op # "none"
  /\ ret' = NoCall
  /\ UNCHANGED <<window, window0, util, readers, delivered>>

blobToArrayBuffer ==
  /\ ret.op = "none"
  /\ Len(readers) < MaxReaders
  /\ \E blob \in Blobs :
       readers' = Append(readers,
                         NewReader("readAsArrayBuffer", blob, Len(readers) + 1))
  /\ UNCHANGED <<window, window0, util, ret, delivered>>

blobToBinaryString ==
  /\ ret.op = "none"
  /\ Len(readers) < MaxReaders
  /\ \E blob \in Blobs :
       readers' = Append(readers,
                         NewReader("readAsBinaryString", blob, Len(readers) + 1))
  /\ UNCHANGED <<window, window0, util, ret, delivered>>

blobToString ==
  /\ ret.op = "none"
  /\ Len(readers) < MaxReaders
  /\ \E blob \in Blobs :
       readers' = Append(readers,
                         NewReader("readAsText", blob, Len(readers) + 1))
  /\ UNCHANGED <<window, window0, util, ret, delivered>>

\* The read of reader i completes: the reader fires load and its handler runs.
ReaderLoad ==
  /\ ret.op = "none"
  /\ \E i \in 1..Len(readers) :
       /\ readers[i].readyState = "LOADING"
       /\ readers' =
            [readers EXCEPT
               ![i].readyState = "DONE",
               ![i].result = FileRead(readers[i].method, readers[i].blob)]
       /\ delivered' = Append(delivered, onload(readers', i))
  /\ UNCHANGED <<window, window0, util, ret>>

\* The read of reader i fails: the reader fires error, which has no handler.
ReaderError ==
  /\ ret.op = "none"
  /\ \E i \in 1..Len(readers) :
       /\ readers[i].readyState = "LOADING"
       /\ readers' =
            [readers EXCEPT ![i].readyState = "DONE", ![i].error = TRUE]
  /\ UNCHANGED <<window, window0, util, ret, delivered>>

\* The page (or a polyfill) defines or deletes one of the constructors.
EnvChange ==
  /\ ret.op = "none"
  /\ \E c \in Constructors :
       window' = IF c \in window THEN window \ {c} ELSE window \cup {c}
  /\ UNCHANGED <<window0, util, ret, readers, delivered>>

----------------------------------------------------------------------------
(* Specifications *)

\* Every operation of Util, on sample inputs, with the reads they start.
Next ==
  \/ ValidateIdCall(SampleIds)
  \/ ValidateKeyCall(SampleKeys)
  \/ RandomTokenCall(SampleFracs)
  \/ RandomIdCall(SampleFracs)
  \/ JoinArrayBuffersCall(SampleBufferLists)
  \/ BinaryStringToArrayBufferCall
  \/ IsSecureCall
  \/ Return
  \/ blobToArrayBuffer
  \/ blobToBinaryString
  \/ blobToString
  \/ ReaderLoad
  \/ ReaderError

Spec == Init /\ [][Next]_vars

\* The synchronous helpers on every input within the bounds.
NextPure ==
  \/ ValidateIdCall(Ids)
  \/ ValidateKeyCall(Keys)
  \/ RandomIdCall(Fracs)
  \/ JoinArrayBuffersCall(BufferLists)
  \/ GetCall
  \/ Return

SpecPure == Init /\ [][NextPure]_vars

\* A changing environment around a running Util.
NextEnv ==
  \/ EnvChange
  \/ IsSecureCall
  \/ RandomTokenCall(Fracs)
  \/ Return

SpecEnv == Init /\ [][NextEnv]_vars

----------------------------------------------------------------------------
(* Properties *)

IsCall(op) == ret.op = op

\* C1: validateId accepts a non-empty id exactly when every character is in
\* [A-Za-z0-9_-] or is a space/underscore/hyphen separator, no separator
\* leads, no separator trails and no two separators are adjacent.
SeparatedSegments(s) ==
  /\ \A i \in 1..Len(s) : s[i] \in IdFirst \cup IdSep
  /\ s[1] \notin IdSep
  /\ s[Len(s)] \notin IdSep
  /\ \A i \in 1..(Len(s) - 1) : ~(s[i] \in IdSep /\ s[i + 1] \in IdSep)

C1_SeparatedSegments ==
  (IsCall("validateId") /\ ~Not(ret.arg))
    => (Truthy(ret.result) <=> SeparatedSegments(ret.arg.chars))

\* C2: validateKey accepts a non-empty key exactly when it has 36
\* characters, hyphens at positions 9, 14, 19 and 24, and a lower-case
\* hexadecimal digit everywhere else.
HexLower == Digit \cup {"a", "b", "c", "d", "e", "f"}

CanonicalUuid(s) ==
  /\ Len(s) = 36
  /\ \A p \in 1..36 :
       IF p \in {9, 14, 19, 24} THEN s[p] = "-" ELSE s[p] \in HexLower

C2_CanonicalUuid ==
  (IsCall("validateKey") /\ ~Not(ret.arg))
    => (Truthy(ret.result) <=> CanonicalUuid(ret.arg.chars))

\* C3: joinArrayBuffers returns a buffer as long as its inputs together,
\* holding byte j of input k at the position after all the bytes of inputs
\* 1..k-1: the inputs are the contiguous pieces of the result, in order.
RECURSIVE TotalLength(_)
TotalLength(buffers) ==
  IF buffers = <<>> THEN 0
  ELSE Len(Head(buffers)) + TotalLength(Tail(buffers))

C3_JoinIsConcatenation ==
  IsCall("joinArrayBuffers") =>
    LET buffers == ret.arg
        joined == ret.result
    IN  /\ Len(joined) = TotalLength(buffers)
        /\ \A k \in 1..Len(buffers) :
             LET start == TotalLength(SubSeq(buffers, 1, k - 1))
             IN  buffers[k] = SubSeq(joined, start + 1, start + Len(buffers[k]))

C3_Witness ==
  /\ IsCall("joinArrayBuffers")
  /\ ret.arg = <<<<255, 0>>, <<>>, <<0, 255>>>>
  /\ ret.result = <<255, 0, 0, 255>>

\* C4: each of the 14 client names and 13 server names resolves to a kind of
\* that name; in a family no two kinds share a name or a code; no name is in
\* both families; no two kinds of the taxonomy are the same code/name pair.
ClientNames ==
  {"SEND_OFFER", "SEND_ANSWER", "SEND_CANDIDATE", "SEND_LEAVE", "ROOM_JOIN",
   "ROOM_LEAVE", "ROOM_GET_LOGS", "ROOM_GET_USERS", "ROOM_SEND_DATA",
   "SFU_GET_OFFER", "SFU_ANSWER", "SFU_CANDIDATE", "PING", "UPDATE_CREDENTIAL"}

ServerNames ==
  {"OPEN", "ERROR", "OFFER", "ANSWER", "CANDIDATE", "LEAVE",
   "AUTH_EXPIRES_IN", "ROOM_LOGS", "ROOM_USERS", "ROOM_DATA",
   "ROOM_USER_JOIN", "ROOM_USER_LEAVE", "SFU_OFFER"}

KeysOf(enum) == {enum[i].key : i \in 1..Len(enum)}

ValuesOf(enum) == {enum[i].value : i \in 1..Len(enum)}

PairsOf(enum) == {<<enum[i].value, enum[i].key>> : i \in 1..Len(enum)}

C4_TaxonomyDistinct ==
  LET client == util.MESSAGE_TYPES.CLIENT
      server == util.MESSAGE_TYPES.SERVER
  IN  /\ Cardinality(ClientNames) = 14 /\ Cardinality(ServerNames) = 13
      /\ Len(client) = 14 /\ Len(server) = 13
      /\ KeysOf(client) = ClientNames /\ KeysOf(server) = ServerNames
      /\ Cardinality(ValuesOf(client)) = 14
      /\ Cardinality(ValuesOf(server)) = 13
      /\ ClientNames \cap ServerNames = {}
      /\ Cardinality(PairsOf(client) \cup PairsOf(server)) = 27
      /\ (IsCall("get") /\ ret.arg.family = "CLIENT"
            /\ ret.arg.name \in ClientNames)
           => (ret.result.type = "EnumItem" /\ ret.result.key = ret.arg.name)
      /\ (IsCall("get") /\ ret.arg.family = "SERVER"
            /\ ret.arg.name \in ServerNames)
           => (ret.result.type = "EnumItem" /\ ret.result.key = ret.arg.name)

C4_Witness ==
  /\ IsCall("get")
  /\ ret.arg = [family |-> "SERVER", name |-> "SFU_OFFER"]
  /\ ret.result.type = "EnumItem"
  /\ ret.result.value = 4096

\* C5: validateId and validateKey return a boolean for every input.
C5_ReturnsBoolean ==
  (IsCall("validateId") \/ IsCall("validateKey"))
    => ret.result.type = "boolean"

\* C6: randomId returns exactly 16 characters of 0-9a-z: the fraction's
\* digits in order, then '0' for every position the fraction does not reach.
C6_RandomIdIsSixteenChars ==
  IsCall("randomId") =>
    /\ Len(ret.result) = 16
    /\ \A i \in 1..16 :
         /\ ret.result[i] \in Digit \cup Lower
         /\ i <= Len(ret.arg) => ret.result[i] = Base36[ret.arg[i] + 1]
         /\ i > Len(ret.arg) => ret.result[i] = "0"

C6_Witness ==
  /\ IsCall("randomId")
  /\ ret.arg = <<35, 10, 9>>
  /\ ret.result = <<"z", "a", "9">> \o [i \in 1..13 |-> "0"]

\* C7: validateId accepts "", undefined and "a b-c_d", and rejects "a  b"
\* and "a!b".
C7_IdExamples ==
  IsCall("validateId") =>
    /\ ret.arg.type = "undefined" => Truthy(ret.result)
    /\ (ret.arg.type = "string" /\ ret.arg.chars = <<>>) => Truthy(ret.result)
    /\ (ret.arg.type = "string"
          /\ ret.arg.chars = <<"a", " ", "b", "-", "c", "_", "d">>)
         => Truthy(ret.result)
    /\ (ret.arg.type = "string" /\ ret.arg.chars = <<"a", " ", " ", "b">>)
         => ~Truthy(ret.result)
    /\ (ret.arg.type = "string" /\ ret.arg.chars = <<"a", "!", "b">>)
         => ~Truthy(ret.result)

C7_Witness ==
  /\ IsCall("validateId")
  /\ ret.arg.type = "string"
  /\ ret.arg.chars = <<"a", " ", " ", "b">>
  /\ ret.result.type = "null"

\* C8: in every state the operations of Util can reach, every field of the
\* instance has the value the constructor gave it; maxChunkSize is 16300,
\* below the 16 KiB frame ceiling.
FrameCeiling == 16 * 1024

C8_ConfigurationUnchanged ==
  /\ util = constructor(window0)
  /\ util.MESSAGE_TYPES = [CLIENT |-> clientMessages, SERVER |-> serverMessages]
  /\ util.maxChunkSize = 16300
  /\ util.maxChunkSize < FrameCeiling
  /\ util.DISPATCHER_SECURE = TRUE
  /\ util.debug = FALSE

C8_Witness ==
  /\ IsCall("isSecure")
  /\ ret.result = FALSE
  /\ Len(delivered) >= 1
  /\ \E i \in 1..Len(readers) : readers[i].error

\* C9: the cached capability is the one the strict priority mozilla, webkit,
\* unprefixed, none gives for the constructors present at construction,
\* whatever constructors are present now.
C9_BrowserProbedOnce ==
  /\ "mozRTCPeerConnection" \in window0 => util.browser = "Firefox"
  /\ ("mozRTCPeerConnection" \notin window0
        /\ "webkitRTCPeerConnection" \in window0) => util.browser = "Chrome"
  /\ ({"mozRTCPeerConnection", "webkitRTCPeerConnection"} \cap window0 = {}
        /\ "RTCPeerConnection" \in window0) => util.browser = "Supported"
  /\ window0 = {} => util.browser = "Unsupported"

C9_Witness ==
  /\ window0 = {"mozRTCPeerConnection", "webkitRTCPeerConnection"}
  /\ util.browser = "Firefox"
  /\ window = {"RTCPeerConnection"}

\* C10: every callback invocation is that of a reader that has loaded, made
\* by the callback given in that reader's call, with that reader's result,
\* which is the read of that call's blob by that call's method; a reader
\* invokes at most once, and a reader that failed never does.
C10_CallbackAfterOwnLoad ==
  /\ \A n \in 1..Len(delivered) :
       LET e == delivered[n]
           r == readers[e.target]
       IN  /\ e.target \in 1..Len(readers)
           /\ r.readyState = "DONE" /\ ~r.error
           /\ e.cb = e.target
           /\ e.cb = r.onload
           /\ e.value = r.result
           /\ e.value = FileRead(r.method, r.blob)
           /\ \A m \in 1..Len(delivered) : delivered[m].target = e.target => m = n
  /\ \A i \in 1..Len(readers) :
       (readers[i].readyState = "LOADING" \/ readers[i].error)
         => \A n \in 1..Len(delivered) : delivered[n].target # i

C10_Witness ==
  /\ Len(delivered) = 1
  /\ delivered[1].target = 2
  /\ delivered[1].value = [kind |-> "string", data |-> <<233, 65533>>]
  /\ readers[1].error
  /\ readers[1].blob = <<72, 105>>

====
